---- MODULE Spec2Model ----
(***************************************************************************)
(* Model of src/src/isolate_io_context_decorator.py: the configuration     *)
(* validator init_decorator_args and the save / override / invoke /        *)
(* restore protocol of the wrapper produced by isolate_io_context.         *)
(*                                                                         *)
(* A Python dict is modelled as a set of <<key, value>> pairs with unique  *)
(* keys; the keyword arguments of a call are a sequence of such pairs in   *)
(* the order the caller wrote them (the order kwargs.items() iterates).    *)
(* A Python value is modelled by its repr: "True", "False", "'yes'", "1".  *)
(***************************************************************************)
EXTENDS Naturals, Sequences, FiniteSets

VARIABLES
    kwargs,      \* the keyword arguments handed to init_decorator_args
    result,      \* outcome of the last init_decorator_args call
    decorators,  \* per decorator: whether it exists, and its decorator_args
    completer,   \* the process-wide readline completer
    stdout,      \* the process-wide sys.stdout reference
    available,   \* whether "import readline" succeeds right now
    active,      \* the threads that run
    stack        \* per thread: the wrapper invocations in flight, innermost last

vars == <<kwargs, result, decorators, completer, stdout, available, active, stack>>

\* ------------------------------------------------------------------ bounds
MaxEntries == 3     \* longest keyword-argument list drawn
MaxDepth == 2       \* deepest nesting of isolated calls
NumDecorators == 1  \* decorators constructed
NumThreads == 2     \* threads of the concurrent specification

\* ------------------------------------------------------------- the domain
IO_ENTITIES == <<"readline", "stdout">>

EntitySet == {IO_ENTITIES[i] : i \in 1..Len(IO_ENTITIES)}

\* keys a caller may pass: the two entities and two unrecognized names
Keys == EntitySet \cup {"stderr", "stdin"}

\* values a caller may pass, by repr: two booleans, a string and an integer
Values == {"True", "False", "'yes'", "1"}

\* a membership test that also takes 1 for True, as "value in (True, False)" would
IsBoolLoose(v) == v \in {"True", "False", "1"}

\* isinstance(value, bool): int and str are not bool
IsBool(v) == v \in {"True", "False"}

\* the truth value Python's "if" gives a value
Truthy(v) == v \notin {"False", "0", "''", "None"}

\* d[key] of a dict d that has the key
Get(d, key) == (CHOOSE p \in d : p[1] = key)[2]

\* d[key] = value
Put(d, key, value) == {p \in d : p[1] # key} \cup {<<key, value>>}

\* set(d.keys())
KeysOf(d) == {p[1] : p \in d}

\* dict.fromkeys(keys, value)
FromKeys(keys, value) == {<<k, value>> : k \in keys}

\* the keyword-argument lists: distinct keys, at most MaxEntries entries
KwargsSet ==
    UNION {{s \in [1..n -> Keys \X Values] :
                \A i, j \in 1..n : i # j => s[i][1] # s[j][1]} : n \in 0..MaxEntries}

\* ---------------------------------------------------- init_decorator_args
Returned(d) == [kind |-> "return", exc |-> "none", msg |-> "none",
                key |-> "none", value |-> "none", args |-> d]

Raised(exc, msg, key, value) ==
    [kind |-> "raise", exc |-> exc, msg |-> msg,
     key |-> key, value |-> value, args |-> {}]

NoResult == [kind |-> "none", exc |-> "none", msg |-> "none",
             key |-> "none", value |-> "none", args |-> {}]

\* a key check that lets every key through
RecognizedAny(key) == key = key

\* the test of line 31
Recognized(key) == key \in EntitySet

\* a completeness check that only asks for no foreign key
CompleteKeysSubset(arguments) == KeysOf(arguments) \subseteq EntitySet

\* the check of line 38
CompleteKeys(arguments) == KeysOf(arguments) = EntitySet

\* the for loop of lines 30-36 from entry i on, and lines 38-40 after it
RECURSIVE LoopFrom(_, _, _)
LoopFrom(kw, i, arguments) ==
    IF i > Len(kw)
    THEN IF ~CompleteKeys(arguments)
         THEN Raised("ValueError", "all IO_ENTITIES must be explicitly provided",
                     "none", "none")
         ELSE Returned(arguments)
    ELSE LET key == kw[i][1]
             value == kw[i][2]
         IN IF ~Recognized(key)
            THEN Raised("TypeError", "invalid io entity", key, "none")
            ELSE IF ~IsBool(value)
                 THEN Raised("TypeError", "boolean expected", key, value)
                 ELSE LoopFrom(kw, i + 1, Put(arguments, key, value))

\* a default that disables every entity
DefaultArgsOff == FromKeys(EntitySet, "False")

\* the default of lines 26-27
DefaultArgs == FromKeys(EntitySet, "True")

\* a validator that checks completeness of the supplied keys before the entries
CompletenessFirst(kw) ==
    IF Len(kw) = 0
    THEN Returned(DefaultArgs)
    ELSE IF {kw[i][1] : i \in 1..Len(kw)} # EntitySet
         THEN Raised("ValueError", "all IO_ENTITIES must be explicitly provided",
                     "none", "none")
         ELSE LoopFrom(kw, 1, {})

\* lines 24-40
init_decorator_args(kw) ==
    IF Len(kw) = 0
    THEN Returned(DefaultArgs)
    ELSE LoopFrom(kw, 1, {})

\* ------------------------------------------------------ isolate_io_context
Decorators == 1..NumDecorators

Threads == 1..NumThreads

\* the handlers readline.get_completer() can return: the application's, the
\* wrapper's (lambda x: x), and one a wrapped function installs
Completers == {"app", "noop", "custom"}

\* the objects sys.stdout can refer to: the application's stdout wrapper,
\* sys.__stdout__, and one a wrapped function installs
Streams == {"wrapper", "default", "custom"}

\* what a wrapped function installs when it reassigns an entity itself
FunctionCompleters == {"custom"}

FunctionStreams == {"custom"}

\* an override that installs the application's handler again
AppCompleter == "app"

\* the (lambda x: x) of line 71
NoopCompleter == "noop"

\* sys.__stdout__ of line 74
DefaultStdout == "default"

\* the failures a wrapped function raises
Failures == {"RuntimeError"}

\* the (*args, **kwargs) a caller hands to a wrapper: the wrapper only hands
\* them on, so one value, distinct from "none", stands for any
Arguments == {"a1"}

\* the values a wrapped function returns
ReturnValues == {"r1", "r2"}

NoDecorator == [state |-> "none", exc |-> "none", args |-> {}]

\* Decoration runs when the decorated functions are defined: d is the next
\* decorator to construct, no wrapper is running and the process-wide state is
\* still the application's.
CanConstruct(d) ==
    /\ decorators[d].state = "none"
    /\ \A e \in Decorators : e < d => decorators[e].state # "none"
    /\ \A t \in Threads : stack[t] = << >>
    /\ completer = "app" /\ stdout = "wrapper" /\ available

\* lines 24-40 on their own: init_decorator_args applied to kwargs
Validate ==
    /\ result = NoResult
    /\ result' = init_decorator_args(kwargs)
    /\ UNCHANGED <<kwargs, decorators, completer, stdout, available, active, stack>>

\* a construction that falls back to the default configuration when validation fails
ConstructLenient(d, kw) ==
    /\ CanConstruct(d)
    /\ LET r == init_decorator_args(kw)
       IN decorators' = [decorators EXCEPT ![d] =
                            IF r.kind = "return"
                            THEN [state |-> "ok", exc |-> "none", args |-> r.args]
                            ELSE [state |-> "ok", exc |-> r.exc, args |-> DefaultArgs]]
    /\ UNCHANGED <<kwargs, result, completer, stdout, available, active, stack>>

\* line 58 and the closure of lines 60-88: isolate_io_context(**kw). A decorator,
\* holding its own decorator_args, exists only if init_decorator_args returned;
\* otherwise its failure leaves isolate_io_context and nothing is produced.
Construct(d, kw) ==
    /\ CanConstruct(d)
    /\ LET r == init_decorator_args(kw)
       IN decorators' = [decorators EXCEPT ![d] =
                            IF r.kind = "return"
                            THEN [state |-> "ok", exc |-> "none", args |-> r.args]
                            ELSE [state |-> "failed", exc |-> r.exc, args |-> {}]]
    /\ UNCHANGED <<kwargs, result, completer, stdout, available, active, stack>>

\* a flag test that ignores the stored flag
StdoutEnabledAlways(d) == decorators[d].state = "ok"

\* decorator_args["readline"] and decorator_args["stdout"], as an "if" reads them
ReadlineEnabled(d) == Truthy(Get(decorators[d].args, "readline"))

StdoutEnabled(d) == Truthy(Get(decorators[d].args, "stdout"))

\* a downgrade that leaves the flag as it is
DowngradeNothing(args) == Put(args, "stdout", Get(args, "stdout"))

\* a downgrade that stores None in place of False
DowngradeNone(args) == Put(args, "readline", "None")

\* line 67
Downgrade(args) == Put(args, "readline", "False")

\* a call that drops the caller's arguments
PassedNothing(f) == "none"

\* line 77: function(*args, **kwargs)
Passed(f) == f.args

\* a return that drops the function's value
ReturnedNone(f) == "None"

\* line 84: return retval
ReturnValue(f) == f.retval

\* the locals of one invocation of wrapper, and where it stands
NewFrame(d, a) ==
    [dec |-> d, pc |-> "check",
     args |-> a,                            \* the caller's *args, **kwargs
     invoked |-> 0,                         \* how often line 77 called the function
     passed |-> "none",                     \* what line 77 called it with
     retval |-> "unbound",                  \* line 77
     returned |-> "none",                   \* what line 84 returned
     readline |-> "unbound",                \* the local name bound by line 65
     old_readline_completer |-> "unbound",  \* line 70
     old_stdout |-> "unbound",              \* line 73
     raised |-> "none",                     \* what function(*args, **kwargs) raised
     exc |-> "none",                        \* what leaves the wrapper
     downgraded |-> FALSE,                  \* line 67 ran in this invocation
     nested |-> FALSE]                      \* an isolated call returned into this one

Depth(t) == Len(stack[t])

Top(t) == stack[t][Depth(t)]

SetTop(t, f) == [stack EXCEPT ![t] = [@ EXCEPT ![Len(@)] = f]]

At(t, pc) == Depth(t) > 0 /\ Top(t).pc = pc

\* code outside the wrapper runs in thread t: the caller's, or a wrapped function's
InUserCode(t) == t \in active /\ (IF Depth(t) = 0 THEN TRUE ELSE Top(t).pc = "body")

\* line 61: the wrapper is entered, from the top level or from a wrapped function
Call(t, d) ==
    /\ InUserCode(t)
    /\ decorators[d].state = "ok"
    /\ Depth(t) < MaxDepth
    /\ \E a \in Arguments : stack' = [stack EXCEPT ![t] = Append(@, NewFrame(d, a))]
    /\ UNCHANGED <<kwargs, result, decorators, completer, stdout, available, active>>

\* lines 63-67
Check(t) ==
    /\ At(t, "check")
    /\ LET f == Top(t)
       IN IF ReadlineEnabled(f.dec)
          THEN IF available
               THEN /\ stack' = SetTop(t, [f EXCEPT !.pc = "save", !.readline = "module"])
                    /\ UNCHANGED decorators
               ELSE /\ stack' = SetTop(t, [f EXCEPT !.pc = "save", !.downgraded = TRUE])
                    /\ decorators' = [decorators EXCEPT ![f.dec].args = Downgrade(@)]
          ELSE /\ stack' = SetTop(t, [f EXCEPT !.pc = "save"])
               /\ UNCHANGED decorators
    /\ UNCHANGED <<kwargs, result, completer, stdout, available, active>>

\* lines 69-77. Reading a local that was never bound raises UnboundLocalError,
\* which leaves the wrapper at once: the try of line 76 is not entered yet.
\* Otherwise the entities are saved and overridden and the function is called.
SaveReadlineFails(f) == ReadlineEnabled(f.dec) /\ f.readline = "unbound"

Save(t) ==
    /\ At(t, "save")
    /\ LET f == Top(t)
       IN IF SaveReadlineFails(f)
          THEN /\ stack' = SetTop(t, [f EXCEPT !.pc = "exit", !.exc = "UnboundLocalError"])
               /\ UNCHANGED <<completer, stdout>>
          ELSE /\ stack' = SetTop(t,
                     [f EXCEPT !.pc = "body",
                               !.invoked = @ + 1,
                               !.passed = Passed(f),
                               !.old_readline_completer =
                                   IF ReadlineEnabled(f.dec) THEN completer ELSE @,
                               !.old_stdout =
                                   IF StdoutEnabled(f.dec) THEN stdout ELSE @])
               /\ completer' = IF ReadlineEnabled(f.dec) THEN NoopCompleter ELSE completer
               /\ stdout' = IF StdoutEnabled(f.dec) THEN DefaultStdout ELSE stdout
    /\ UNCHANGED <<kwargs, result, decorators, available, active>>

\* line 77: what a wrapped function may do before it returns or raises
BodySetCompleter(t, v) ==
    /\ At(t, "body") /\ t \in active
    /\ available
    /\ v # completer
    /\ completer' = v
    /\ UNCHANGED <<kwargs, result, decorators, stdout, available, active, stack>>

BodySetStdout(t, v) ==
    /\ At(t, "body") /\ t \in active
    /\ v # stdout
    /\ stdout' = v
    /\ UNCHANGED <<kwargs, result, decorators, completer, available, active, stack>>

BodyReturn(t, r) ==
    /\ At(t, "body") /\ t \in active
    /\ stack' = SetTop(t, [Top(t) EXCEPT !.pc = "restore", !.retval = r])
    /\ UNCHANGED <<kwargs, result, decorators, completer, stdout, available, active>>

BodyRaise(t, e) ==
    /\ At(t, "body") /\ t \in active
    /\ stack' = SetTop(t, [Top(t) EXCEPT !.pc = "restore", !.raised = e])
    /\ UNCHANGED <<kwargs, result, decorators, completer, stdout, available, active>>

\* the environment gains or loses the readline module (sys.modules, sys.path)
SetAvailable(t, b) ==
    /\ InUserCode(t)
    /\ b # available
    /\ available' = b
    /\ UNCHANGED <<kwargs, result, decorators, completer, stdout, active, stack>>

\* a restore that installs sys.__stdout__ instead of the saved stream
RestoredStdoutDefault(f) == DefaultStdout

\* the right-hand side of line 83
RestoredStdout(f) == f.old_stdout

\* lines 79-84: the finally block, and the return when nothing is pending. A
\* failure inside the finally block replaces the one pending.
RestoreReadlineFails(f) ==
    ReadlineEnabled(f.dec)
        /\ (f.readline = "unbound" \/ f.old_readline_completer = "unbound")

RestoreStdoutFails(f) == StdoutEnabled(f.dec) /\ f.old_stdout = "unbound"

Restore(t) ==
    /\ At(t, "restore")
    /\ LET f == Top(t)
       IN IF RestoreReadlineFails(f)
          THEN /\ stack' = SetTop(t, [f EXCEPT !.pc = "exit", !.exc = "UnboundLocalError"])
               /\ UNCHANGED <<completer, stdout>>
          ELSE /\ completer' = IF ReadlineEnabled(f.dec)
                               THEN f.old_readline_completer ELSE completer
               /\ IF RestoreStdoutFails(f)
                  THEN /\ stack' = SetTop(t,
                             [f EXCEPT !.pc = "exit", !.exc = "UnboundLocalError"])
                       /\ UNCHANGED stdout
                  ELSE /\ stack' = SetTop(t,
                             [f EXCEPT !.pc = "exit", !.exc = f.raised,
                                       !.returned = IF f.raised = "none"
                                                    THEN ReturnValue(f) ELSE @])
                       /\ stdout' = IF StdoutEnabled(f.dec) THEN RestoredStdout(f) ELSE stdout
    /\ UNCHANGED <<kwargs, result, decorators, available, active>>

\* the value or the failure leaves the wrapper: control is back in the caller
Exit(t) ==
    /\ At(t, "exit")
    /\ stack' = [stack EXCEPT ![t] =
                    IF Len(@) = 1 THEN << >>
                    ELSE [SubSeq(@, 1, Len(@) - 1) EXCEPT ![Len(@) - 1].nested = TRUE]]
    /\ UNCHANGED <<kwargs, result, decorators, completer, stdout, available, active>>

\* ---------------------------------------------------------- specifications
InitShared ==
    /\ result = NoResult
    /\ decorators = [d \in Decorators |-> NoDecorator]
    /\ completer = "app"
    /\ stdout = "wrapper"
    /\ available = TRUE
    /\ stack = [t \in Threads |-> << >>]

\* one thread: decorators are constructed and their wrappers called, nested or not
Init ==
    /\ InitShared
    /\ kwargs = << >>
    /\ active = {1}

Next ==
    \/ \E d \in Decorators : CanConstruct(d) /\ \E kw \in KwargsSet : Construct(d, kw)
    \/ \E t \in Threads, d \in Decorators : Call(t, d)
    \/ \E t \in Threads : Check(t)
    \/ \E t \in Threads : Save(t)
    \/ \E t \in Threads, v \in FunctionCompleters : BodySetCompleter(t, v)
    \/ \E t \in Threads, v \in FunctionStreams : BodySetStdout(t, v)
    \/ \E t \in Threads, r \in ReturnValues : BodyReturn(t, r)
    \/ \E t \in Threads, e \in Failures : BodyRaise(t, e)
    \/ \E t \in Threads, b \in BOOLEAN : SetAvailable(t, b)
    \/ \E t \in Threads : Restore(t)
    \/ \E t \in Threads : Exit(t)

Spec == Init /\ [][Next]_vars

\* several threads call wrappers at once; their steps interleave
InitConcurrent ==
    /\ InitShared
    /\ kwargs = << >>
    /\ active = Threads

\* as Next, with every call made from the top level of its thread
NextConcurrent ==
    \/ \E d \in Decorators : CanConstruct(d) /\ \E kw \in KwargsSet : Construct(d, kw)
    \/ \E t \in Threads, d \in Decorators : Depth(t) = 0 /\ Call(t, d)
    \/ \E t \in Threads : Check(t)
    \/ \E t \in Threads : Save(t)
    \/ \E t \in Threads, v \in FunctionCompleters : BodySetCompleter(t, v)
    \/ \E t \in Threads, v \in FunctionStreams : BodySetStdout(t, v)
    \/ \E t \in Threads, r \in ReturnValues : BodyReturn(t, r)
    \/ \E t \in Threads, e \in Failures : BodyRaise(t, e)
    \/ \E t \in Threads, b \in BOOLEAN : SetAvailable(t, b)
    \/ \E t \in Threads : Restore(t)
    \/ \E t \in Threads : Exit(t)

SpecConcurrent == InitConcurrent /\ [][NextConcurrent]_vars

\* init_decorator_args alone, applied to every keyword-argument list of KwargsSet
InitValidate ==
    /\ InitShared
    /\ kwargs \in KwargsSet
    /\ active = {1}

NextValidate == Validate

SpecValidate == InitValidate /\ [][NextValidate]_vars

\* ------------------------------------------- claims on init_decorator_args
\* the configuration a keyword-argument list denotes, its keys, and its faults
Mapping(kw) == {kw[i] : i \in 1..Len(kw)}

Validated == result.kind # "none"

MissingEntity(kw) == Len(kw) > 0 /\ KeysOf(Mapping(kw)) \cap EntitySet # EntitySet

UnknownAt(kw) == {i \in 1..Len(kw) : kw[i][1] \notin EntitySet}

NonBoolAt(kw) == {i \in 1..Len(kw) : kw[i][1] \in EntitySet /\ kw[i][2] \notin {"True", "False"}}

Min(S) == CHOOSE i \in S : \A j \in S : i <= j

InvalidEntityError(r, key) ==
    r.kind = "raise" /\ r.exc = "TypeError" /\ r.msg = "invalid io entity" /\ r.key = key

InvalidValueError(r, key, value) ==
    /\ r.kind = "raise" /\ r.exc = "TypeError" /\ r.msg = "boolean expected"
    /\ r.key = key /\ r.value = value

IncompleteConfigurationError(r) ==
    /\ r.kind = "raise" /\ r.exc = "ValueError"
    /\ r.msg = "all IO_ENTITIES must be explicitly provided"

\* the failure of the first offending entry of kw, in the order of the entries
FirstOffenceReported(kw, r) ==
    LET i == Min(UnknownAt(kw) \cup NonBoolAt(kw))
    IN IF i \in UnknownAt(kw)
       THEN InvalidEntityError(r, kw[i][1])
       ELSE InvalidValueError(r, kw[i][1], kw[i][2])

\* C7 as stated: every non-empty configuration that misses a recognized entity
\* fails with IncompleteConfigurationError, whatever its other entries are.
C7_AlwaysIncomplete ==
    (Validated /\ MissingEntity(kwargs)) => IncompleteConfigurationError(result)

\* C7, amended: a non-empty configuration that misses a recognized entity always
\* fails; the failure is IncompleteConfigurationError when every supplied key is
\* recognized and every supplied value is a boolean, and otherwise the TypeError
\* of the first offending entry.
C7_IncompleteWhenEntriesValid ==
    (Validated /\ MissingEntity(kwargs)) =>
        IF UnknownAt(kwargs) \cup NonBoolAt(kwargs) = {}
        THEN IncompleteConfigurationError(result)
        ELSE FirstOffenceReported(kwargs, result)

\* a lone readline=False was rejected as incomplete
C7_Witness ==
    /\ kwargs = << <<"readline", "False">> >>
    /\ IncompleteConfigurationError(result)

\* C8 as stated: every configuration holding an unrecognized key fails with
\* InvalidEntityError naming an unrecognized key of it, whatever the other
\* entries and their order are.
C8_AlwaysInvalidEntity ==
    (Validated /\ UnknownAt(kwargs) # {}) =>
        \E i \in UnknownAt(kwargs) : InvalidEntityError(result, kwargs[i][1])

\* C8, amended: a configuration holding an unrecognized key always fails with a
\* TypeError, that of its first offending entry: InvalidEntityError naming the
\* first unrecognized key unless an entry before it gives a recognized key a
\* non-boolean value, and then InvalidValueError for that entry.
C8_FirstOffenceWins ==
    (Validated /\ UnknownAt(kwargs) # {}) =>
        /\ result.kind = "raise" /\ result.exc = "TypeError"
        /\ FirstOffenceReported(kwargs, result)
        /\ (\A j \in NonBoolAt(kwargs) : j > Min(UnknownAt(kwargs)))
               => InvalidEntityError(result, kwargs[Min(UnknownAt(kwargs))][1])

\* an unrecognized key after valid entries for both entities was reported by name
C8_Witness ==
    /\ Len(kwargs) = 3
    /\ UnknownAt(kwargs) = {3}
    /\ NonBoolAt(kwargs) = {}
    /\ InvalidEntityError(result, kwargs[3][1])

\* C9 as stated: every configuration giving a recognized key a non-boolean value
\* fails with InvalidValueError naming such a key and its value.
C9_AlwaysInvalidValue ==
    (Validated /\ NonBoolAt(kwargs) # {}) =>
        \E i \in NonBoolAt(kwargs) : InvalidValueError(result, kwargs[i][1], kwargs[i][2])

\* C9, amended: a configuration giving a recognized key a non-boolean value
\* always fails with a TypeError, that of its first offending entry:
\* InvalidValueError naming the key and the value of the first such entry unless
\* an unrecognized key comes before it, and then InvalidEntityError for that key.
\* Only the booleans True and False are accepted as values.
C9_FirstOffenceWins ==
    /\ (Validated /\ NonBoolAt(kwargs) # {}) =>
          /\ result.kind = "raise" /\ result.exc = "TypeError"
          /\ FirstOffenceReported(kwargs, result)
          /\ (\A j \in UnknownAt(kwargs) : j > Min(NonBoolAt(kwargs)))
                 => InvalidValueError(result, kwargs[Min(NonBoolAt(kwargs))][1],
                                      kwargs[Min(NonBoolAt(kwargs))][2])
    /\ result.kind = "return" =>
          \A i \in 1..Len(kwargs) : kwargs[i][2] \in {"True", "False"}

\* stdout=1 after a valid readline entry was reported with its key and value
C9_Witness ==
    /\ kwargs = << <<"readline", "True">>, <<"stdout", "1">> >>
    /\ InvalidValueError(result, "stdout", "1")

\* C10: the empty configuration yields {readline: True, stdout: True}; a
\* configuration of exactly the two recognized keys with boolean values is
\* returned as the same mapping.
C10_EffectiveConfiguration ==
    Validated =>
        /\ Len(kwargs) = 0 =>
              result = Returned({<<"readline", "True">>, <<"stdout", "True">>})
        /\ (/\ KeysOf(Mapping(kwargs)) = {"readline", "stdout"}
            /\ \A i \in 1..Len(kwargs) : kwargs[i][2] \in {"True", "False"})
              => result = Returned(Mapping(kwargs))

\* an explicit configuration of both entities came back as given
C10_Witness ==
    /\ kwargs = << <<"stdout", "True">>, <<"readline", "False">> >>
    /\ result.kind = "return"
    /\ result.args = {<<"readline", "False">>, <<"stdout", "True">>}

\* ------------------------------------------------- claims on the wrapper
\* the flag stored for an entity in decorator d's configuration
Flag(d, entity) == Get(decorators[d].args, entity)

\* thread t's innermost invocation stands at pc and this step is its own
Moved(t, pc) ==
    IF Depth(t) = 0 THEN FALSE ELSE Top(t).pc = pc /\ stack'[t] # stack[t]

\* that invocation after a step that does not end it
After(t) == stack'[t][Depth(t)]

\* the entities an invocation overrode are back to the values it saved
Restored(f) ==
    /\ f.old_readline_completer # "unbound" => completer = f.old_readline_completer
    /\ f.old_stdout # "unbound" => stdout = f.old_stdout

\* C1 as stated: when a wrapped call completes, by return or by failure, every
\* entity it isolated has the value it had just before the call.
C1_RoundTrip ==
    \A t \in Threads : At(t, "exit") => Restored(Top(t))

\* C2 as stated: when the wrapped function raises, the caller observes that same
\* failure, and by then every overridden entity is back to its saved value.
C2_FailureAfterRestore ==
    \A t \in Threads :
        (At(t, "exit") /\ Top(t).raised # "none") =>
            /\ Top(t).exc = Top(t).raised
            /\ Restored(Top(t))

\* C3: an entity whose flag is false is neither read for saving nor written by
\* any step of the wrapper, whatever its value is and whatever the wrapped
\* function did to it, on the return path and on the failure path.
C3_Step ==
    \A t \in Threads :
        (Moved(t, "check") \/ Moved(t, "save") \/ Moved(t, "restore") \/ Moved(t, "exit")) =>
            /\ Flag(Top(t).dec, "stdout") = "False" =>
                  /\ stdout' = stdout
                  /\ Top(t).pc # "exit" => After(t).old_stdout = Top(t).old_stdout
            /\ Flag(Top(t).dec, "readline") = "False" =>
                  /\ completer' = completer
                  /\ Top(t).pc # "exit" =>
                        After(t).old_readline_completer = Top(t).old_readline_completer

\* C3: no step of the wrapper reads for saving or writes an entity whose flag
\* is false.
C3_DisabledUntouched == [][C3_Step]_vars

\* a call with both flags false has run to its end, by a failure, and the values
\* the wrapped function gave both entities are still there
C3_Witness ==
    \E t \in Threads :
        /\ At(t, "exit")
        /\ Top(t).raised # "none"
        /\ Flag(Top(t).dec, "stdout") = "False"
        /\ Flag(Top(t).dec, "readline") = "False"
        /\ ~Top(t).downgraded
        /\ stdout = "custom"
        /\ completer = "custom"

\* C4 as stated: a call that found readline unavailable leaves the stored
\* configuration with readline enabled when it completes.
C4_DowngradeNotStored ==
    \A t \in Threads :
        (At(t, "exit") /\ Top(t).downgraded) => Flag(Top(t).dec, "readline") = "True"

\* C5: a call under the all-enabled configuration that finds readline
\* unavailable raises nothing of its own, never gets or sets the completer, in
\* the save phase or in the restore phase, overrides the output stream with the
\* default stream and puts back the stream it found.
C5_Step ==
    \A t \in Threads :
        /\ (/\ Moved(t, "check")
            /\ ~available
            /\ Flag(Top(t).dec, "readline") = "True"
            /\ Flag(Top(t).dec, "stdout") = "True") =>
              /\ After(t).pc = "save" /\ After(t).exc = "none"
              /\ After(t).downgraded
              /\ completer' = completer /\ stdout' = stdout
        /\ (/\ Moved(t, "save")
            /\ Top(t).downgraded
            /\ Flag(Top(t).dec, "stdout") = "True") =>
              /\ After(t).pc = "body" /\ After(t).exc = "none"
              /\ completer' = completer
              /\ After(t).old_readline_completer = "unbound"
              /\ After(t).old_stdout = stdout
              /\ stdout' = "default"
        /\ (/\ Moved(t, "restore")
            /\ Top(t).downgraded
            /\ Flag(Top(t).dec, "stdout") = "True") =>
              /\ After(t).pc = "exit" /\ After(t).exc = Top(t).raised
              /\ completer' = completer
              /\ stdout' = Top(t).old_stdout

\* C5: every step of a call that found readline unavailable under the
\* all-enabled configuration is the step a call with readline=False takes, and
\* the output stream is still overridden and restored.
C5_UnavailableActsAsDisabled == [][C5_Step]_vars

\* such a call has run to its end with readline still unavailable: the function
\* returned after replacing the stream, and the application's stream is back
C5_Witness ==
    \E t \in Threads :
        /\ At(t, "exit")
        /\ Top(t).downgraded
        /\ Flag(Top(t).dec, "stdout") = "True"
        /\ ~available
        /\ Top(t).exc = "none"
        /\ Top(t).old_stdout = "wrapper"
        /\ stdout = "wrapper"
        /\ completer = "app"

\* C6 as stated: when an isolated call made from inside another isolated call
\* completes, the entities it isolated have the values they had just before it
\* started, and when the outer call completes the entities that one isolated
\* have the values they had before the outer call started.
C6_NestedLifo ==
    \A t \in Threads :
        (At(t, "exit") /\ (Depth(t) > 1 \/ Top(t).nested)) => Restored(Top(t))

\* the failures init_decorator_args raises
ConfigurationErrors == {"TypeError", "ValueError"}

FramesOf(d) ==
    {<<t, i>> \in Threads \X (1..MaxDepth) : i <= Depth(t) /\ stack[t][i].dec = d}

\* a decorator exists exactly when validation raised nothing; a failed
\* construction has no wrapper running; no wrapper ends in a configuration error
C11_State ==
    /\ \A d \in Decorators :
          /\ decorators[d].state = "ok" => decorators[d].exc = "none"
          /\ decorators[d].state = "failed" =>
                decorators[d].exc \in ConfigurationErrors /\ FramesOf(d) = {}
          /\ decorators[d].state = "none" => FramesOf(d) = {}
    /\ \A t \in Threads : \A i \in 1..Depth(t) :
          stack[t][i].exc \notin ConfigurationErrors

\* a construction touches no entity and runs no wrapper, and its outcome is final:
\* no later step turns a constructed decorator into a failed one or back
C11_Step ==
    \A d \in Decorators :
        /\ (decorators[d].state = "none" /\ decorators'[d].state # "none") =>
              /\ completer' = completer /\ stdout' = stdout
              /\ stack' = stack
        /\ decorators[d].state # "none" =>
              /\ decorators'[d].state = decorators[d].state
              /\ decorators'[d].exc = decorators[d].exc

\* C11: a configuration error surfaces when the decorator is constructed, before
\* any decorator or wrapper exists, so no target runs and no entity is read or
\* written; once construction succeeded no call of a wrapper raises one.
C11_ErrorsAtConstruction == [][C11_Step /\ C11_State']_vars

\* a construction failed on its configuration and nothing else has happened
C11_Witness ==
    /\ decorators[1].state = "failed"
    /\ decorators[1].exc = "ValueError"
    /\ completer = "app" /\ stdout = "wrapper"
    /\ \A t \in Threads : stack[t] = << >>

\* C12: every call of a wrapper invokes the target exactly once, with the
\* arguments the caller supplied, and when the target returns the wrapper
\* returns that very value.
C12_InvokedOnceSameArgsSameValue ==
    \A t \in Threads : \A i \in 1..Depth(t) :
        LET f == stack[t][i]
        IN /\ f.pc \in {"check", "save"} => f.invoked = 0
           /\ f.pc \in {"body", "restore", "exit"} =>
                 f.invoked = 1 /\ f.passed = f.args /\ f.args \in {"a1"}
           /\ (f.pc = "exit" /\ f.raised = "none") =>
                 /\ f.exc = "none"
                 /\ f.retval \in {"r1", "r2"}
                 /\ f.returned = f.retval

\* a nested call has returned its target's value while the outer target runs
C12_Witness ==
    \E t \in Threads :
        /\ Depth(t) = 2
        /\ Top(t).pc = "exit"
        /\ Top(t).invoked = 1
        /\ Top(t).passed = "a1"
        /\ Top(t).retval = "r2"
        /\ Top(t).returned = "r2"
        /\ stack[t][1].pc = "body"

\* what a thread's stdout-isolating call does to the one process-wide stream,
\* whatever the other threads did to it in between: it saves the stream it
\* finds, and later writes back the stream it saved
C13_Step ==
    \A t \in Threads :
        /\ (Moved(t, "save") /\ Flag(Top(t).dec, "stdout") = "True") =>
              After(t).old_stdout = stdout
        /\ (Moved(t, "restore") /\ Flag(Top(t).dec, "stdout") = "True") =>
              /\ After(t).exc = Top(t).raised
              /\ stdout' = Top(t).old_stdout

\* C13: the saved stream is local to each call while the stream itself is one
\* process-wide reference, so with two threads there is an interleaving after
\* which both calls are over and the stream is not the one it was before
\* (C13_Witness is such a state); every save and restore step writes without
\* regard to the other thread.
C13_CallLocalSaveGlobalStream == [][C13_Step]_vars

\* thread 1's call is over, thread 2's call has restored and is about to leave,
\* both under stdout isolation, and the stream is left as the default stream:
\* thread 2 saved it while thread 1's override was in place
C13_Witness ==
    /\ stack[1] = << >>
    /\ At(2, "exit")
    /\ Flag(Top(2).dec, "stdout") = "True"
    /\ Top(2).old_stdout = "default"
    /\ Top(2).exc = "none"
    /\ stdout = "default"

\* C14: when the target starts executing, every entity that is enabled and
\* available is already overridden, the stream by the default stream and the
\* completer by the no-op handler, and the value it had was saved first.
C14_Step ==
    \A t \in Threads :
        Moved(t, "save") =>
            /\ After(t).pc = "body" /\ After(t).invoked = 1
            /\ Flag(Top(t).dec, "stdout") = "True" =>
                  /\ After(t).old_stdout = stdout
                  /\ stdout' = "default"
            /\ (Flag(Top(t).dec, "readline") = "True" /\ Top(t).readline = "module") =>
                  /\ After(t).old_readline_completer = completer
                  /\ completer' = "noop"

\* C14: the step that starts the target has saved and overridden every entity
\* that is enabled and available.
C14_OverrideBeforeInvoke == [][C14_Step]_vars

\* a target is running under both overrides, the application's values saved
C14_Witness ==
    \E t \in Threads :
        /\ At(t, "body")
        /\ Top(t).invoked = 1
        /\ Top(t).old_readline_completer = "app"
        /\ Top(t).old_stdout = "wrapper"
        /\ completer = "noop"
        /\ stdout = "default"

\* the restore step of one invocation undoes exactly what its save step did:
\* an entity it overrode (its saved local is bound) goes back to the saved
\* value, an entity it did not override is left as it is, and nothing fails
C15_Step ==
    \A t \in Threads :
        Moved(t, "restore") =>
            LET f == Top(t)
            IN /\ After(t).exc = f.raised
               /\ completer' = IF f.old_readline_completer # "unbound"
                               THEN f.old_readline_completer
                               ELSE completer
               /\ stdout' = IF f.old_stdout # "unbound"
                            THEN f.old_stdout
                            ELSE stdout

\* C15: in every invocation the entities restored are the entities that
\* invocation overrode, each restored to the value it saved, also when the
\* configuration changed between the two phases.
C15_RestoreWhatWasOverridden == [][C15_Step]_vars

\* the entries of kw that the loop of the validator rejects
Offending(kw) == UnknownAt(kw) \cup NonBoolAt(kw)

\* C16: validation fails with IncompleteConfigurationError only when no entry
\* offends; when some entry has an unrecognized key or a non-boolean value the
\* failure is the key or type error of an offending entry.
C16_ErrorPrecedence ==
    Validated =>
        /\ IncompleteConfigurationError(result) => Offending(kwargs) = {}
        /\ Offending(kwargs) # {} =>
              /\ ~IncompleteConfigurationError(result)
              /\ \E i \in Offending(kwargs) :
                    \/ InvalidEntityError(result, kwargs[i][1])
                    \/ InvalidValueError(result, kwargs[i][1], kwargs[i][2])

\* stdout alone with a non-boolean value: readline is missing too, and the
\* failure is the type error
C16_Witness ==
    /\ Validated
    /\ kwargs = << <<"stdout", "'yes'">> >>
    /\ InvalidValueError(result, "stdout", "'yes'")

\* the stored configuration of every constructed decorator has the two keys,
\* once each, with boolean values
C17_State ==
    \A d \in Decorators :
        decorators[d].state = "ok" =>
            /\ KeysOf(decorators[d].args) = {"readline", "stdout"}
            /\ Cardinality(decorators[d].args) = 2
            /\ \A e \in {"readline", "stdout"} : Flag(d, e) \in {"True", "False"}

\* no step changes the stdout flag, and a step changes the readline flag only
\* from true to false
C17_Step ==
    \A d \in Decorators :
        decorators[d].state = "ok" =>
            /\ decorators'[d].state = "ok"
            /\ Get(decorators'[d].args, "stdout") = Flag(d, "stdout")
            /\ \/ Get(decorators'[d].args, "readline") = Flag(d, "readline")
               \/ /\ Flag(d, "readline") = "True"
                  /\ Get(decorators'[d].args, "readline") = "False"

\* C17: after successful construction the stored configuration always has
\* exactly the keys readline and stdout with boolean values; the stdout flag
\* never changes and the readline flag only changes from true to false.
C17_ConfigurationShape == [][C17_Step /\ C17_State']_vars

\* a call that found readline unavailable is over: the flag went to false,
\* the stdout flag is as constructed
C17_Witness ==
    \E t \in Threads :
        /\ At(t, "exit")
        /\ Top(t).downgraded
        /\ Flag(Top(t).dec, "readline") = "False"
        /\ Flag(Top(t).dec, "stdout") = "True"

====
